---- MODULE Spec2Model ----
(* Room registry and message fanout of the chat relay in src/src/main.rs:   *)
(* the WebSocketSession actor (started / stopped / ChatMessage handler /    *)
(* stream handler), the websocket_handler that creates it, and the REST      *)
(* handlers with the three locks of AppState.                               *)
EXTENDS Integers, Sequences, FiniteSets, TLC

----------------------------------------------------------------------------
(* Bounds of the model *)

NSess == 2          \* connection requests (slots) the model follows
MaxItems == 2       \* stream items handled in one behaviour
MaxOps == 1         \* broadcasts and REST requests of a lock-grained behaviour


Slots == 1..NSess
RestCtx == {0}                  \* the HTTP worker that serves the REST requests
Ctx == Slots \cup RestCtx       \* execution contexts: session actors and the worker

----------------------------------------------------------------------------
(* Values *)

None == -1                      \* Option::None
Absent == "absent"              \* query parameter not present
RoomIds == {1, 2}               \* parsed Uuid values
RawRoomIds == {Absent, "not-a-uuid", "uuid-1", "uuid-2"}
RawNames == {Absent, "alice"}
Texts == {"hi"}
OtherKinds == {"Binary", "Err"}   \* a non-text frame, a ProtocolError
Utf8Error == "Invalid UTF-8 data received."

\* the query strings a client can send: a string serde_urlencoded rejects,
\* or a well-formed one with or without roomId / username (the client of
\* room uuid-1 names itself, the others do not)
Queries ==
    {q \in [wellFormed : BOOLEAN, roomId : RawRoomIds, username : RawNames] :
        /\ ~q.wellFormed => q.roomId = Absent
        /\ q.username # Absent <=> q.roomId = "uuid-1"}

\* placeholder of a slot whose request has not arrived
NoQuery == [wellFormed |-> TRUE, roomId |-> "-", username |-> "-"]

\* the Mutex fields of AppState
LockNames == {"users", "rooms", "connections"}

\* the bodies of the REST requests
RestRequests ==
    [op : {"register"}, username : {"alice"}, password : {"pw"},
     name : {""}, creator : {""}, room_id : {None}]
    \cup [op : {"login"}, username : {"alice"}, password : {"pw"},
          name : {""}, creator : {""}, room_id : {None}]
    \cup [op : {"create_room"}, username : {""}, password : {""},
          name : {"general"}, creator : {"alice"}, room_id : {None}]
    \cup [op : {"add_user"}, username : {"bob"}, password : {""},
          name : {""}, creator : {""}, room_id : {1}]
    \cup [op : {"list_rooms"}, username : {""}, password : {""},
          name : {""}, creator : {""}, room_id : {None}]

\* a context that is in no handler
Idle == [op |-> "idle", phase |-> "-", i |-> 0, arg |-> <<>>]

\* the lock a handler takes
LockOf(op) ==
    CASE op \in {"started", "stopped", "fanout"} -> "connections"
      [] op \in {"register", "login"} -> "users"
      [] op \in {"create_room", "add_user", "list_rooms"} -> "rooms"

\* items the websocket stream yields to the stream handler
TextItems == [kind : {"Text"}, text : Texts]
OtherItems == [kind : OtherKinds, text : {""}]
Items == TextItems \cup OtherItems

----------------------------------------------------------------------------
(* Pure helpers *)

\* Uuid::parse_str(id).ok()
ParseUuidDefaulting(raw) ==
    IF raw = "uuid-1" THEN 1 ELSE IF raw = "uuid-2" THEN 2 ELSE 0

ParseUuid(raw) ==
    IF raw = "uuid-1" THEN 1 ELSE IF raw = "uuid-2" THEN 2 ELSE None

\* query_params.get("roomId").and_then(|id| Uuid::parse_str(id).ok())
ResolveRoom(q) ==
    IF q.roomId = Absent THEN None ELSE ParseUuid(q.roomId)

\* query_params.get("username").cloned().unwrap_or_else(|| "guest")
ResolveIdentity(q) ==
    IF q.username = Absent THEN "guest" ELSE q.username

\* String::from_utf8(text.as_bytes().to_vec()): the bytes of a ByteString
\* are valid UTF-8, so the conversion of a Text frame succeeds
FromUtf8Ok(text) == text \in Texts

\* connections.entry(room).or_insert_with(Vec::new).push(addr)
RegisterExistingOnly(conns, room, addr) ==
    IF room \in DOMAIN conns
    THEN [conns EXCEPT ![room] = Append(@, addr)]
    ELSE conns

RegisterEverywhere(conns, room, addr) ==
    LET all == conns @@ (room :> <<>>)
    IN  [r \in DOMAIN all |-> Append(all[r], addr)]

RegisterTwice(conns, room, addr) ==
    IF room \in DOMAIN conns
    THEN [conns EXCEPT ![room] = Append(Append(@, addr), addr)]
    ELSE conns @@ (room :> <<addr, addr>>)

Register(conns, room, addr) ==
    IF room \in DOMAIN conns
    THEN [conns EXCEPT ![room] = Append(@, addr)]
    ELSE conns @@ (room :> <<addr>>)

\* users.retain(|a| a != &addr)
RetainNothing(users, addr) == users

Retain(users, addr) == SelectSeq(users, LAMBDA a : a # addr)

\* if let Some(users) = connections.get_mut(&room) { users.retain(..) }
DeregisterOrInsert(conns, room, addr) ==
    IF room \in DOMAIN conns
    THEN [conns EXCEPT ![room] = Retain(@, addr)]
    ELSE conns @@ (room :> <<>>)

DeregisterDropEmpty(conns, room, addr) ==
    IF room \in DOMAIN conns
    THEN IF Retain(conns[room], addr) = <<>>
         THEN [r \in DOMAIN conns \ {room} |-> conns[r]]
         ELSE [conns EXCEPT ![room] = Retain(@, addr)]
    ELSE conns

Deregister(conns, room, addr) ==
    IF room \in DOMAIN conns
    THEN [conns EXCEPT ![room] = Retain(@, addr)]
    ELSE conns

\* connections.get(&room): the list the fanout iterates
UsersOfButFirst(conns, room) ==
    IF room \in DOMAIN conns /\ conns[room] # <<>> THEN Tail(conns[room]) ELSE <<>>

UsersOfAnyRoom(conns, room) ==
    IF DOMAIN conns = {} THEN <<>> ELSE conns[CHOOSE r \in DOMAIN conns : TRUE]

UsersOf(conns, room) ==
    IF room \in DOMAIN conns THEN conns[room] ELSE <<>>

\* Addr::do_send: queues the message whatever the length of the mailbox;
\* a message for a dropped actor is silently discarded
DoSendLifo(queue, env, closed) ==
    IF closed THEN queue ELSE <<env>> \o queue

DoSend(queue, env, closed) ==
    IF closed THEN queue ELSE Append(queue, env)

\* for user in users { user.do_send(..) }
RECURSIVE FanoutAbort(_, _, _, _)
FanoutAbort(users, env, mb, st) ==
    IF users = <<>> THEN mb
    ELSE IF st[Head(users)] # "Joined" THEN mb
    ELSE FanoutAbort(Tail(users), env,
            [mb EXCEPT ![Head(users)] = DoSend(@, env, st[Head(users)] = "Closed")],
            st)

RECURSIVE Fanout(_, _, _, _)
Fanout(users, env, mb, st) ==
    IF users = <<>> THEN mb
    ELSE Fanout(Tail(users), env,
            [mb EXCEPT ![Head(users)] = DoSend(@, env, st[Head(users)] = "Closed")],
            st)

\* ctx.text(msg.message): the frame put on the connection
WireFrame(text) == [text |-> text]

Range(seq) == {seq[i] : i \in 1..Len(seq)}

----------------------------------------------------------------------------
(* State *)

VARIABLES
    state,        \* per slot: Idle, Rejected, Connecting, Joined, Closing, Closed
    request,      \* per slot: the query the client sent (NoQuery before it)
    response,     \* per slot: what websocket_handler answered
    room_id,      \* WebSocketSession.room_id
    username,     \* WebSocketSession.username
    connections,  \* AppState.connections: room id -> list of session addresses
    mailbox,      \* per session: ChatMessages queued by do_send
    written,      \* per open connection: frames put on it by ctx.text
    handled,      \* history: the stream items handled, in order
    stoppedRuns,  \* history: how often the stopped hook ran, per session
    rooms,        \* AppState.rooms: room id -> Room
    accounts,     \* AppState.users: username -> password
    reply,        \* per worker: the response of the last REST request
    restDone,     \* history: the number of REST requests taken up
    holders,      \* per lock: the contexts that hold its guard
    job           \* per context: the handler it is in, and how far

\* what the session handlers leave alone
restAndLocks == <<rooms, accounts, reply, restDone, holders, job>>

vars == <<state, request, response, room_id, username, connections,
          mailbox, written, handled, stoppedRuns,
          rooms, accounts, reply, restDone, holders, job>>

Init ==
    /\ state = [s \in Slots |-> "Idle"]
    /\ request = [s \in Slots |-> NoQuery]
    /\ response = [s \in Slots |-> "none"]
    /\ room_id = [s \in Slots |-> None]
    /\ username = [s \in Slots |-> ""]
    /\ connections = <<>>
    /\ mailbox = [s \in Slots |-> <<>>]
    /\ written = [s \in Slots |-> <<>>]
    /\ handled = <<>>
    /\ stoppedRuns = [s \in Slots |-> 0]
    /\ rooms = <<>>
    /\ accounts = <<>>
    /\ reply = [c \in RestCtx |-> "none"]
    /\ restDone = 0
    /\ holders = [l \in LockNames |-> {}]
    /\ job = [c \in Ctx |-> Idle]

----------------------------------------------------------------------------
(* Operations *)

\* websocket_handler: parse the query, resolve room and name, ws::start
WebsocketHandler(s, q) ==
    /\ state[s] = "Idle"
    /\ \A p \in Slots : p < s => state[p] # "Idle"   \* slots number the requests in order of arrival
    /\ request' = [request EXCEPT ![s] = q]
    /\ IF ~q.wellFormed
       THEN /\ response' = [response EXCEPT ![s] = "400 Invalid query string"]
            /\ state' = [state EXCEPT ![s] = "Rejected"]
            /\ UNCHANGED <<room_id, username>>
       ELSE IF ResolveRoom(q) = None
       THEN /\ response' = [response EXCEPT ![s] = "400 Missing or invalid roomId"]
            /\ state' = [state EXCEPT ![s] = "Rejected"]
            /\ UNCHANGED <<room_id, username>>
       ELSE /\ response' = [response EXCEPT ![s] = "101"]
            /\ state' = [state EXCEPT ![s] = "Connecting"]
            /\ room_id' = [room_id EXCEPT ![s] = ResolveRoom(q)]
            /\ username' = [username EXCEPT ![s] = ResolveIdentity(q)]
    /\ UNCHANGED <<connections, mailbox, written, handled, stoppedRuns>>
    /\ UNCHANGED restAndLocks

\* Actor::started
Started(s) ==
    /\ state[s] = "Connecting"
    /\ connections' = Register(connections, room_id[s], s)
    /\ state' = [state EXCEPT ![s] = "Joined"]
    /\ UNCHANGED <<request, response, room_id, username, mailbox, written,
                   handled, stoppedRuns>>
    /\ UNCHANGED restAndLocks

\* StreamHandler::handle
StreamHandle(s, item) ==
    /\ state[s] = "Joined"
    /\ job[s].op = "idle"
    /\ Len(handled) < MaxItems
    /\ handled' = Append(handled,
            [from |-> s, kind |-> item.kind, text |-> item.text,
             closing |-> \E r \in Range(UsersOf(connections, room_id[s])) :
                            state[r] # "Joined"])
    /\ IF item.kind = "Text"
       THEN IF FromUtf8Ok(item.text)
            THEN LET env == [msg |-> [room_id |-> room_id[s],
                                      username |-> username[s],
                                      message |-> item.text],
                             id |-> Len(handled) + 1]
                 IN  /\ mailbox' = Fanout(UsersOf(connections, room_id[s]), env,
                                          mailbox, state)
                     /\ UNCHANGED written
            ELSE /\ written' = [written EXCEPT ![s] =
                                  Append(@, [frame |-> WireFrame(Utf8Error), id |-> 0])]
                 /\ UNCHANGED mailbox
       ELSE UNCHANGED <<mailbox, written>>
    /\ UNCHANGED <<state, request, response, room_id, username, connections,
                   stoppedRuns>>
    /\ UNCHANGED restAndLocks

\* Handler<ChatMessage>::handle
HandleChatMessage(s) ==
    /\ state[s] = "Joined"
    /\ job[s].op = "idle"
    /\ mailbox[s] # <<>>
    /\ LET env == Head(mailbox[s])
       IN  /\ mailbox' = [mailbox EXCEPT ![s] = Tail(@)]
           /\ IF env.msg.room_id = room_id[s]
              THEN written' = [written EXCEPT ![s] =
                                 Append(@, [frame |-> WireFrame(env.msg.message),
                                            id |-> env.id])]
              ELSE UNCHANGED written
    /\ UNCHANGED <<state, request, response, room_id, username, connections,
                   handled, stoppedRuns>>
    /\ UNCHANGED restAndLocks

\* the stream ends (transport closed): StreamHandler::finished, which the
\* session does not override, stops the context
StreamFinished(s) ==
    /\ state[s] = "Joined"
    /\ job[s].op = "idle"
    /\ state' = [state EXCEPT ![s] = "Closing"]
    /\ UNCHANGED <<request, response, room_id, username, connections, mailbox,
                   written, handled, stoppedRuns>>
    /\ UNCHANGED restAndLocks

\* Actor::stopped; the actor, its mailbox and its connection are dropped
\* afterwards
StoppedSkipsCleanup(s) ==
    /\ state[s] = "Closing"
    /\ state' = [state EXCEPT ![s] = "Closed"]
    /\ mailbox' = [mailbox EXCEPT ![s] = <<>>]
    /\ written' = [written EXCEPT ![s] = <<>>]
    /\ UNCHANGED <<request, response, room_id, username, connections,
                   handled, stoppedRuns>>
    /\ UNCHANGED restAndLocks

Stopped(s) ==
    /\ state[s] = "Closing"
    /\ connections' = Deregister(connections, room_id[s], s)
    /\ state' = [state EXCEPT ![s] = "Closed"]
    /\ mailbox' = [mailbox EXCEPT ![s] = <<>>]
    /\ written' = [written EXCEPT ![s] = <<>>]
    /\ stoppedRuns' = [stoppedRuns EXCEPT ![s] = @ + 1]
    /\ UNCHANGED <<request, response, room_id, username, handled>>
    /\ UNCHANGED restAndLocks

\* the queries that open a session
JoinQueries == {q \in Queries : q.wellFormed /\ q.roomId \in {"uuid-1", "uuid-2"}}

Next ==
    \/ \E s \in Slots, q \in JoinQueries : WebsocketHandler(s, q)
    \/ \E s \in Slots : Started(s)
    \/ \E s \in Slots, item \in TextItems : StreamHandle(s, item)
    \/ \E s \in Slots : HandleChatMessage(s)
    \/ \E s \in Slots : StreamFinished(s)
    \/ \E s \in Slots : Stopped(s)

Spec == Init /\ [][Next]_vars

\* the connection requests of every kind, the stream items that are not
\* text frames, and the lifecycle of the sessions
NextJoin ==
    \/ \E s \in Slots, q \in Queries : WebsocketHandler(s, q)
    \/ \E s \in Slots : Started(s)
    \/ \E s \in Slots, item \in OtherItems : StreamHandle(s, item)
    \/ \E s \in Slots : StreamFinished(s)
    \/ \E s \in Slots : Stopped(s)

SpecJoin == Init /\ [][NextJoin]_vars

\* the actor's context runs the stopped hook once the context is stopping
SpecJoinFair == SpecJoin /\ \A s \in Slots : WF_vars(Stopped(s))

----------------------------------------------------------------------------
(* The handlers step by step: lock(), the critical section, the drop of the *)
(* guard at the end of the scope                                            *)

\* the handler context c is about to enter and has to take the lock for
PendingOp(c) ==
    IF job[c].phase = "wait" THEN job[c].op
    ELSE IF c \in Slots /\ job[c].op = "idle" /\ state[c] = "Connecting" THEN "started"
    ELSE IF c \in Slots /\ job[c].op = "idle" /\ state[c] = "Closing" THEN "stopped"
    ELSE "none"

\* Mutex::lock().unwrap(): returns once no other context holds the guard
AcquireLockUnguarded(c) ==
    /\ PendingOp(c) # "none"
    /\ holders' = [holders EXCEPT ![LockOf(PendingOp(c))] = @ \cup {c}]
    /\ job' = [job EXCEPT ![c] = [op |-> PendingOp(c), phase |-> "cs", i |-> 1,
                                  arg |-> job[c].arg]]
    /\ UNCHANGED <<state, request, response, room_id, username, connections,
                   mailbox, written, handled, stoppedRuns,
                   rooms, accounts, reply, restDone>>

AcquireLock(c) ==
    /\ PendingOp(c) # "none"
    /\ holders[LockOf(PendingOp(c))] = {}
    /\ holders' = [holders EXCEPT ![LockOf(PendingOp(c))] = @ \cup {c}]
    /\ job' = [job EXCEPT ![c] = [op |-> PendingOp(c), phase |-> "cs", i |-> 1,
                                  arg |-> job[c].arg]]
    /\ UNCHANGED <<state, request, response, room_id, username, connections,
                   mailbox, written, handled, stoppedRuns,
                   rooms, accounts, reply, restDone>>

\* the guard goes out of scope
Release(c, l) == [holders EXCEPT ![l] = @ \ {c}]

\* Actor::started, inside the lock
StartedLockedJoinsRoom(s) ==
    /\ job[s].op = "started" /\ job[s].phase = "cs"
    /\ connections' = Register(connections, room_id[s], s)
    /\ rooms' = IF room_id[s] \in DOMAIN rooms
                THEN [rooms EXCEPT ![room_id[s]].users = @ \cup {username[s]}]
                ELSE rooms
    /\ state' = [state EXCEPT ![s] = "Joined"]
    /\ holders' = Release(s, "connections")
    /\ job' = [job EXCEPT ![s] = Idle]
    /\ UNCHANGED <<request, response, room_id, username, mailbox, written,
                   handled, stoppedRuns, accounts, reply, restDone>>

StartedLocked(s) ==
    /\ job[s].op = "started" /\ job[s].phase = "cs"
    /\ connections' = Register(connections, room_id[s], s)
    /\ state' = [state EXCEPT ![s] = "Joined"]
    /\ holders' = Release(s, "connections")
    /\ job' = [job EXCEPT ![s] = Idle]
    /\ UNCHANGED <<request, response, room_id, username, mailbox, written,
                   handled, stoppedRuns, rooms, accounts, reply, restDone>>

\* Actor::stopped, inside the lock
StoppedLocked(s) ==
    /\ job[s].op = "stopped" /\ job[s].phase = "cs"
    /\ connections' = Deregister(connections, room_id[s], s)
    /\ state' = [state EXCEPT ![s] = "Closed"]
    /\ mailbox' = [mailbox EXCEPT ![s] = <<>>]
    /\ written' = [written EXCEPT ![s] = <<>>]
    /\ stoppedRuns' = [stoppedRuns EXCEPT ![s] = @ + 1]
    /\ holders' = Release(s, "connections")
    /\ job' = [job EXCEPT ![s] = Idle]
    /\ UNCHANGED <<request, response, room_id, username, handled,
                   rooms, accounts, reply, restDone>>

\* StreamHandler::handle, a text frame, up to connections.lock()
BeginBroadcast(s, item) ==
    /\ state[s] = "Joined"
    /\ job[s].op = "idle"
    /\ Len(handled) + restDone < MaxOps
    /\ item.kind = "Text" /\ FromUtf8Ok(item.text)
    /\ handled' = Append(handled,
            [from |-> s, kind |-> item.kind, text |-> item.text,
             closing |-> \E r \in Range(UsersOf(connections, room_id[s])) :
                            state[r] # "Joined"])
    /\ job' = [job EXCEPT ![s] =
                 [op |-> "fanout", phase |-> "wait", i |-> 0,
                  arg |-> [msg |-> [room_id |-> room_id[s],
                                    username |-> username[s],
                                    message |-> item.text],
                           id |-> Len(handled) + 1]]]
    /\ UNCHANGED <<state, request, response, room_id, username, connections,
                   mailbox, written, stoppedRuns,
                   rooms, accounts, reply, restDone, holders>>

\* one turn of the loop: do_send to the next address of the list
FanoutStep(s) ==
    /\ job[s].op = "fanout" /\ job[s].phase = "cs"
    /\ job[s].i <= Len(UsersOf(connections, room_id[s]))
    /\ LET user == UsersOf(connections, room_id[s])[job[s].i]
       IN  mailbox' = [mailbox EXCEPT ![user] =
                         DoSend(@, job[s].arg, state[user] = "Closed")]
    /\ job' = [job EXCEPT ![s].i = @ + 1]
    /\ UNCHANGED <<state, request, response, room_id, username, connections,
                   written, handled, stoppedRuns,
                   rooms, accounts, reply, restDone, holders>>

\* the loop is over and the guard is dropped
EndBroadcastKeepsLock(s) ==
    /\ job[s].op = "fanout" /\ job[s].phase = "cs"
    /\ job[s].i > Len(UsersOf(connections, room_id[s]))
    /\ job' = [job EXCEPT ![s] = Idle]
    /\ UNCHANGED <<state, request, response, room_id, username, connections,
                   mailbox, written, handled, stoppedRuns,
                   rooms, accounts, reply, restDone, holders>>

EndBroadcast(s) ==
    /\ job[s].op = "fanout" /\ job[s].phase = "cs"
    /\ job[s].i > Len(UsersOf(connections, room_id[s]))
    /\ holders' = Release(s, "connections")
    /\ job' = [job EXCEPT ![s] = Idle]
    /\ UNCHANGED <<state, request, response, room_id, username, connections,
                   mailbox, written, handled, stoppedRuns,
                   rooms, accounts, reply, restDone>>

\* a REST request reaches its handler, which starts by taking its lock
BeginRest(c, req) ==
    /\ job[c].op = "idle"
    /\ Len(handled) + restDone < MaxOps
    /\ req.op = "create_room" => DOMAIN rooms # RoomIds   \* a fresh id is left
    /\ restDone' = restDone + 1
    /\ job' = [job EXCEPT ![c] = [op |-> req.op, phase |-> "wait", i |-> 0,
                                  arg |-> req]]
    /\ UNCHANGED <<state, request, response, room_id, username, connections,
                   mailbox, written, handled, stoppedRuns,
                   rooms, accounts, reply, holders>>

\* what every REST handler leaves alone
RestFrame(c, l) ==
    /\ holders' = Release(c, l)
    /\ job' = [job EXCEPT ![c] = Idle]
    /\ UNCHANGED <<state, request, response, room_id, username, connections,
                   mailbox, written, handled, stoppedRuns, restDone>>

register(c) ==
    /\ job[c].op = "register" /\ job[c].phase = "cs"
    /\ LET req == job[c].arg
       IN  IF req.username \in DOMAIN accounts
           THEN /\ reply' = [reply EXCEPT ![c] = "409 User already exists"]
                /\ UNCHANGED accounts
           ELSE /\ accounts' = accounts @@ (req.username :> req.password)
                /\ reply' = [reply EXCEPT ![c] = "200 User registered successfully"]
    /\ UNCHANGED rooms
    /\ RestFrame(c, "users")

login(c) ==
    /\ job[c].op = "login" /\ job[c].phase = "cs"
    /\ LET req == job[c].arg
       IN  reply' = [reply EXCEPT ![c] =
                       IF req.username \in DOMAIN accounts
                          /\ accounts[req.username] = req.password
                       THEN "200 Login successful"
                       ELSE "401 Invalid username or password"]
    /\ UNCHANGED <<rooms, accounts>>
    /\ RestFrame(c, "users")

\* Uuid::new_v4() is an id no room has
create_room(c) ==
    /\ job[c].op = "create_room" /\ job[c].phase = "cs"
    /\ \E id \in RoomIds \ DOMAIN rooms :
          rooms' = rooms @@ (id :> [id |-> id, name |-> job[c].arg.name,
                                    creator |-> job[c].arg.creator, users |-> {}])
    /\ reply' = [reply EXCEPT ![c] = "200 room"]
    /\ UNCHANGED accounts
    /\ RestFrame(c, "rooms")

add_user(c) ==
    /\ job[c].op = "add_user" /\ job[c].phase = "cs"
    /\ LET req == job[c].arg
       IN  IF req.room_id \in DOMAIN rooms
           THEN /\ rooms' = [rooms EXCEPT ![req.room_id].users = @ \cup {req.username}]
                /\ reply' = [reply EXCEPT ![c] = "200 room"]
           ELSE /\ reply' = [reply EXCEPT ![c] = "404 Room not found"]
                /\ UNCHANGED rooms
    /\ UNCHANGED accounts
    /\ RestFrame(c, "rooms")

list_rooms(c) ==
    /\ job[c].op = "list_rooms" /\ job[c].phase = "cs"
    /\ reply' = [reply EXCEPT ![c] = "200 rooms"]
    /\ UNCHANGED <<rooms, accounts>>
    /\ RestFrame(c, "rooms")

\* (taking a message from the mailbox takes no lock: it is followed in Spec)
NextLock ==
    \/ \E s \in Slots, q \in JoinQueries : WebsocketHandler(s, q)
    \/ \E c \in Ctx : AcquireLock(c)
    \/ \E s \in Slots : StartedLocked(s)
    \/ \E s \in Slots, item \in TextItems : BeginBroadcast(s, item)
    \/ \E s \in Slots : FanoutStep(s)
    \/ \E s \in Slots : EndBroadcast(s)
    \/ \E s \in Slots : StreamFinished(s)
    \/ \E s \in Slots : StoppedLocked(s)
    \/ \E c \in RestCtx, req \in RestRequests : BeginRest(c, req)
    \/ \E c \in RestCtx : register(c)
    \/ \E c \in RestCtx : login(c)
    \/ \E c \in RestCtx : create_room(c)
    \/ \E c \in RestCtx : add_user(c)
    \/ \E c \in RestCtx : list_rooms(c)

SpecLock == Init /\ [][NextLock]_vars

\* the steps the contexts take by themselves, once a handler is entered
Progress ==
    \/ \E c \in Ctx : AcquireLock(c)
    \/ \E s \in Slots : StartedLocked(s) \/ FanoutStep(s) \/ EndBroadcast(s)
                         \/ StoppedLocked(s)
    \/ \E c \in RestCtx : register(c) \/ login(c) \/ create_room(c)
                           \/ add_user(c) \/ list_rooms(c)

\* the threads keep running: as long as some context can go on, one does
SpecLockFair == SpecLock /\ WF_vars(Progress)

----------------------------------------------------------------------------
(* Vocabulary of the properties *)

\* session r is in the live registry entry of room R
RegisteredIn(r, R) ==
    /\ R \in DOMAIN connections
    /\ \E i \in 1..Len(connections[R]) : connections[R][i] = r

\* the broadcasts (by number) found in a mailbox or on a connection
IdsOf(seq) == {seq[i].id : i \in 1..Len(seq)}

\* the step is a broadcast: a text frame was handled
IsBroadcastStep ==
    /\ Len(handled') = Len(handled) + 1
    /\ handled'[Len(handled')].kind = "Text"

\* the ChatMessage of the broadcast of this step, with its number
StepEnvelope ==
    LET h == handled'[Len(handled')]
    IN  [msg |-> [room_id |-> room_id[h.from], username |-> username[h.from],
                  message |-> h.text],
         id |-> Len(handled')]

StepSender == handled'[Len(handled')].from

\* the query of slot s names no room: roomId missing or not a uuid
BadRoomQuery(s) ==
    /\ request[s] # NoQuery
    /\ request[s].roomId \notin {"uuid-1", "uuid-2"}

----------------------------------------------------------------------------
(* C1: a broadcast by C in room R is queued for every session registered in *)
(* R at that moment (other than possibly C), queued for no session of       *)
(* another room, and no frame on a connection comes from another room.      *)
C1_NoCrossRoomWrite ==
    \A r \in Slots : \A i \in 1..Len(written[r]) :
        written[r][i].id > 0 => room_id[handled[written[r][i].id].from] = room_id[r]

C1_FanoutStep ==
    IsBroadcastStep =>
        \A r \in Slots :
            /\ (r # StepSender /\ RegisteredIn(r, room_id[StepSender]))
                  => mailbox'[r] = Append(mailbox[r], StepEnvelope)
            /\ room_id[r] # room_id[StepSender] => mailbox'[r] = mailbox[r]

C1_BroadcastReachesRoomOnly == [] C1_NoCrossRoomWrite /\ [][C1_FanoutStep]_vars

\* a peer of the sender's room has the broadcast on its connection
C1_Witness ==
    \E r \in Slots : \E i \in 1..Len(written[r]) :
        /\ written[r][i].id > 0
        /\ handled[written[r][i].id].from # r
        /\ written[r][i].frame.text = handled[written[r][i].id].text

(* C2: no room's live registry entry contains a session that is Closed.     *)
C2_NoClosedMember ==
    \A R \in DOMAIN connections : \A i \in 1..Len(connections[R]) :
        state[connections[R][i]] # "Closed"

\* a session has closed while another one is still registered in its room
C2_Witness ==
    \E s \in Slots, r \in Slots :
        /\ s # r
        /\ state[s] = "Closed"
        /\ RegisteredIn(r, room_id[s])
        /\ handled # <<>>

C5_FrameTextAndSenderTag ==
    \A r \in Slots : \A i \in 1..Len(written[r]) :
        LET f == written[r][i].frame
            h == handled[written[r][i].id]
        IN  written[r][i].id > 0 =>
                /\ f.text = h.text
                /\ "username" \in DOMAIN f
                /\ f.username = username[h.from]

(* C6: deregistering a session from a room where it is not present (a       *)
(* second leave, or a room with no entry) changes no room's member list,    *)
(* and a repeated leave changes nothing more than the first.                *)
C6_LeaveIdempotent ==
    \A R \in RoomIds : \A s \in Slots :
        /\ ~RegisteredIn(s, R) => Deregister(connections, R, s) = connections
        /\ Deregister(Deregister(connections, R, s), R, s)
              = Deregister(connections, R, s)

\* a session has left, another room member stays, and a room has no entry
C6_Witness ==
    \E s \in Slots, r \in Slots :
        /\ stoppedRuns[s] = 1
        /\ RegisteredIn(r, room_id[s])
        /\ \E R \in RoomIds : R \notin DOMAIN connections

(* C7: a broadcast made while a member of the room is closing still queues  *)
(* the message for every live member, and the sender stays Joined.          *)
C7_FanoutStep ==
    (IsBroadcastStep /\ handled'[Len(handled')].closing) =>
        /\ \A r \in Slots :
              (RegisteredIn(r, room_id[StepSender]) /\ state[r] = "Joined")
                  => mailbox'[r] = Append(mailbox[r], StepEnvelope)
        /\ state' = state

C7_DeliveryIsolated == [][C7_FanoutStep]_vars

\* a broadcast made while a member was closing is on a live member's connection
C7_Witness ==
    \E k \in 1..Len(handled) : \E r \in Slots :
        /\ handled[k].kind = "Text"
        /\ handled[k].closing
        /\ k \in IdsOf(written[r])

(* C8: the cleanup of a session (the stopped hook) has run exactly once     *)
(* when the session is Closed, never before and never twice, and it has     *)
(* taken the session out of the registry.                                   *)
C8_CleanupExactlyOnce ==
    \A s \in Slots :
        /\ stoppedRuns[s] \in {0, 1}
        /\ state[s] = "Closed" <=> stoppedRuns[s] = 1
        /\ state[s] = "Closed" => \A R \in RoomIds : ~RegisteredIn(s, R)

\* a session that handled a protocol error or a non-text frame has closed
C8_Witness ==
    \E s \in Slots :
        /\ state[s] = "Closed"
        /\ stoppedRuns[s] = 1
        /\ \E k \in 1..Len(handled) : handled[k].from = s /\ handled[k].kind # "Text"

(* C9: (as claimed) after a non-text payload the session has written an     *)
(* error message to its own connection and is no longer Joined.             *)
C9_NonTextCloses ==
    \A k \in 1..Len(handled) :
        handled[k].kind = "Binary" =>
            /\ state[handled[k].from] # "Joined"
            /\ written[handled[k].from] # <<>>

(* C10: a request whose room id is missing or unparseable is answered with  *)
(* a client error, opens no session, joins no room (no default room), and   *)
(* leaves the registry as it was.                                           *)
C10_Rejected ==
    /\ \A s \in Slots :
          BadRoomQuery(s) =>
              /\ state[s] = "Rejected"
              /\ response[s] \in {"400 Invalid query string",
                                  "400 Missing or invalid roomId"}
              /\ room_id[s] = None
              /\ \A R \in DOMAIN connections : ~RegisteredIn(s, R)
    /\ DOMAIN connections \subseteq RoomIds

C10_RejectStep ==
    \A s \in Slots :
        (request[s] = NoQuery /\ BadRoomQuery(s)') => connections' = connections

C10_BadRoomRejected == [] C10_Rejected /\ [][C10_RejectStep]_vars

\* a request without a usable room id was rejected while a session is registered
C10_Witness ==
    \E s \in Slots, r \in Slots :
        /\ BadRoomQuery(s)
        /\ request[s].wellFormed
        /\ state[s] = "Rejected"
        /\ \E R \in RoomIds : RegisteredIn(r, R)

(* C11: a session is in the live registry entry of at most one room, and    *)
(* that room is the session's own room_id.                                  *)
C11_OnlyOwnRoom ==
    \A s \in Slots : \A R \in DOMAIN connections :
        RegisteredIn(s, R) => R = room_id[s]

\* a session is registered in its room while another room has an entry too
C11_Witness ==
    \E s \in Slots : \E R \in DOMAIN connections :
        /\ R # room_id[s]
        /\ RegisteredIn(s, room_id[s])

(* C12: (as claimed) the messages pending in a session's mailbox never      *)
(* exceed a fixed bound, however many broadcasts are made. Stated for the   *)
(* largest bound below the number of broadcasts a behaviour can make.       *)
MailboxBound == MaxItems - 1

C12_MailboxBounded ==
    \A s \in Slots : Len(mailbox[s]) <= MailboxBound

(* C14: a session whose transport has closed is eventually Closed and out   *)
(* of the registry.                                                         *)
C14_ClosedEventually ==
    \A s \in Slots :
        (state[s] = "Closing")
            ~> (state[s] = "Closed" /\ \A R \in RoomIds : ~RegisteredIn(s, R))

\* a session closed and left while the other session stays registered
C14_Witness ==
    \E s \in Slots, r \in Slots :
        /\ state[s] = "Closed"
        /\ \A R \in RoomIds : ~RegisteredIn(s, R)
        /\ state[r] = "Joined"
        /\ RegisteredIn(r, room_id[s])

(* C17: no session occurs twice in a room's live member list, and no        *)
(* broadcast is queued twice for one recipient.                             *)
C17_NoDuplicateMember ==
    /\ \A R \in DOMAIN connections :
          \A i \in 1..Len(connections[R]) : \A j \in 1..Len(connections[R]) :
              connections[R][i] = connections[R][j] => i = j
    /\ \A s \in Slots :
          \A i \in 1..Len(mailbox[s]) : \A j \in 1..Len(mailbox[s]) :
              mailbox[s][i].id = mailbox[s][j].id => i = j

\* two sessions are in one room's list and a broadcast is queued for both
C17_Witness ==
    \E R \in DOMAIN connections :
        /\ Len(connections[R]) >= 2
        /\ \A i \in 1..Len(connections[R]) : mailbox[connections[R][i]] # <<>>

(* C18: every queued ChatMessage carries the room_id of the session it is   *)
(* queued for, and every message a Joined session takes from its mailbox is *)
(* written to its connection.                                               *)
C18_QueuedForOwnRoom ==
    \A s \in Slots : \A i \in 1..Len(mailbox[s]) :
        mailbox[s][i].msg.room_id = room_id[s]

C18_DequeueStep ==
    \A s \in Slots :
        (mailbox[s] # <<>> /\ mailbox'[s] = Tail(mailbox[s]) /\ state'[s] = "Joined")
            => written'[s] = Append(written[s],
                                    [frame |-> [text |-> Head(mailbox[s]).msg.message],
                                     id |-> Head(mailbox[s]).id])

C18_FilterNeverDiscards == [] C18_QueuedForOwnRoom /\ [][C18_DequeueStep]_vars

\* a session has written a message while a session of another room is Joined
C18_Witness ==
    \E s \in Slots, r \in Slots :
        /\ written[s] # <<>>
        /\ state[r] = "Joined"
        /\ room_id[r] # room_id[s]

(* C19: the room ids that have a registry entry only grow: the first join   *)
(* creates the entry and no leave removes it.                               *)
C19_EntryOfEveryJoinedRoom ==
    \A s \in Slots :
        state[s] \in {"Joined", "Closing", "Closed"} => room_id[s] \in DOMAIN connections

C19_DomainStep == DOMAIN connections \subseteq DOMAIN connections'

C19_EntriesOnlyGrow == [] C19_EntryOfEveryJoinedRoom /\ [][C19_DomainStep]_vars

\* the last member of a room has left and the room still has its empty entry
C19_Witness ==
    \E s \in Slots :
        /\ state[s] = "Closed"
        /\ room_id[s] \in DOMAIN connections
        /\ connections[room_id[s]] = <<>>

(* C13: (as claimed) every persisted Room has its creator among its member  *)
(* names.                                                                   *)
C13_CreatorIsMember ==
    \A id \in DOMAIN rooms : rooms[id].creator \in rooms[id].users

(* C15: the persisted rooms and the live registry are independent: a step   *)
(* that changes the rooms changes no member list, mailbox or session state, *)
(* and a join, leave or fanout step changes no persisted room.              *)
C15_Step ==
    /\ rooms' # rooms
          => (connections' = connections /\ mailbox' = mailbox /\ state' = state)
    /\ (connections' # connections \/ mailbox' # mailbox \/ state' # state)
          => rooms' = rooms

C16_OneInRegistry == Cardinality(holders["connections"]) <= 1

C16_Step ==
    /\ connections' # connections => Cardinality(holders["connections"]) = 1
    /\ \A s \in Slots :
          (job[s].op = "fanout" /\ job[s].phase = "cs" /\ job'[s].op = "fanout")
              => connections' = connections

C16_RegistryMutex == [] C16_OneInRegistry /\ [][C16_Step]_vars

\* a fanout is under way while a join or a leave waits for the lock
C16_Witness ==
    \E s \in Slots, r \in Slots :
        /\ job[s].op = "fanout" /\ job[s].phase = "cs" /\ job[s].i >= 2
        /\ PendingOp(r) \in {"started", "stopped"}

\* the locks context c holds
HeldBy(c) == {l \in LockNames : c \in holders[l]}

(* C20: no context holds a lock while it takes another one, no context      *)
(* holds two, and a lock holder is never blocked, so that every session     *)
(* that asks for the registry lock gets it.                                 *)
C20_NoHoldAndWait ==
    \A c \in Ctx :
        /\ Cardinality(HeldBy(c)) <= 1
        /\ PendingOp(c) # "none" => HeldBy(c) = {}

\* a lock is held only inside the handler that took it, and whenever a
\* context waits for a lock some context can take its next step
C20_HolderGoesOn ==
    /\ \A l \in LockNames : \A c \in holders[l] :
          job[c].phase = "cs" /\ LockOf(job[c].op) = l
    /\ (\E c \in Ctx : PendingOp(c) # "none") => ENABLED Progress

\* a step of a lock holder gives the lock back, or is one turn of the fanout
\* loop, of which there are no more than the member list is long
C20_HolderStep ==
    \A l \in LockNames : \A c \in holders[l] :
        job'[c] # job[c] =>
            \/ c \notin holders'[l] /\ job'[c].op = "idle"
            \/ /\ job[c].op = "fanout" /\ c \in holders'[l]
               /\ job'[c].i = job[c].i + 1
               /\ job[c].i <= Len(connections[room_id[c]])
               /\ connections' = connections

\* a context stops waiting for a lock only by taking that lock
C20_WaitEndsByAcquire ==
    \A c \in Ctx :
        (PendingOp(c) # "none" /\ PendingOp(c)' = "none")
            => (job'[c].phase = "cs" /\ c \in holders'[LockOf(PendingOp(c))])

\* ... and no session waits for the registry lock for ever
C20_LocksDeadlockFree ==
    /\ [] (C20_NoHoldAndWait /\ C20_HolderGoesOn)
    /\ [][C20_HolderStep /\ C20_WaitEndsByAcquire]_vars
    /\ \A s \in Slots : []<>(PendingOp(s) = "none")

\* a session waits for the registry lock that another session holds, while
\* the worker holds the lock of a REST handler
C20_Witness ==
    \E s \in Slots, r \in Slots :
        /\ s # r
        /\ PendingOp(s) # "none"
        /\ r \in holders["connections"]
        /\ \E c \in RestCtx : HeldBy(c) # {}

====
